---- MODULE Spec2Model ----
(***************************************************************************)
(* Model of mouse_steering.py: the shared steering state, the scroll and   *)
(* key callbacks (each a thread of a listener), the key-tapping scheduler  *)
(* thread (tap_key_continuously) and the interrupt path of main.           *)
(*                                                                         *)
(* Every statement that reads or writes a shared global is one step, so    *)
(* that the interleavings of callbacks, scheduler and shutdown are those   *)
(* of the program.  Time is not modelled: a sleep is a step that ends.     *)
(* Durations are integers in units of DUTY_CYCLE_PERIOD / 15.              *)
(***************************************************************************)
EXTENDS Integers, FiniteSets, Sequences, TLC

\* ---------------------------------------------------------------- constants
\* MAX_SCROLL_STEPS (line 14)
MAX_SCROLL_STEPS == 15
\* DUTY_CYCLE_PERIOD (line 13), in units of 1/225 s, i.e. of a fifteenth of
\* the period: 1/15 s = 15 units.
DUTY_CYCLE_PERIOD == 15
\* the virtual-key code of numpad 0 (line 146)
TRIGGER_VK == 96
\* a virtual-key code that is not the trigger
OTHER_VK == 65
\* stands for a key object without a vk attribute (hasattr(key,'vk') false)
NO_VK == 0

\* main creates one mouse listener and one keyboard listener (lines 177-178);
\* a listener is one thread, which runs its callback for one event at a time
MOUSE_LISTENER == 1
KEYBOARD_LISTENER == 1

\* ------------------------------------------------------------------- bounds
\* number of on_scroll calls that may be in flight at once when the callbacks
\* are taken to be arbitrary concurrent threads (BurstSpec)
NumScroll == 2
\* number of scroll events of such a burst
MaxBurst == 4
\* number of on_press calls that may be in flight at once when the callbacks
\* are taken to be arbitrary concurrent threads
NumToggle == 2
\* number of thread objects for tap_key_continuously that may exist at once
MaxSched == 2
\* calculate_duty_cycle is called with levels from MaxDutyLevel below 0 to
\* MaxDutyLevel above MAX_SCROLL_STEPS (DutySpec)
MaxDutyLevel == 50

ScrollThreads == 1..NumScroll
ToggleThreads == 1..NumToggle
SchedIds == 1..MaxSched

\* what a scroll event carries in dy: up, nothing, down
ScrollDeltas == {-1, 0, 1}
\* what a key event carries
KeyEvents == {TRIGGER_VK, OTHER_VK, NO_VK}

Directions == {"none", "left", "right"}

Min(a, b) == IF a <= b THEN a ELSE b
Max(a, b) == IF a >= b THEN a ELSE b

Free == <<"free", 0>>
ScrollId(t) == <<"scroll", t>>
ToggleId(t) == <<"toggle", t>>
SchedId(i) == <<"sched", i>>

VARIABLES
    enabled,            \* global enabled
    current_direction,  \* global current_direction: "none" is None
    scroll_count,       \* global scroll_count
    lock,               \* holder of the global lock, or Free
    tapping_thread,     \* global tapping_thread: 0 is None, else a thread id
    stop_tapping,       \* the Event stop_tapping: TRUE when set
    sched_pc,           \* position of each tap_key_continuously thread
    sched_dir,          \* its local direction
    sched_cnt,          \* its local count
    sched_press,        \* its local press_duration
    sched_release,      \* its local release_duration
    sched_key,          \* its local key_to_press ("none" before it is set)
    keys_down,          \* keys the keyboard controller holds pressed
    scroll_pc,          \* position of each on_scroll call
    scroll_dy,          \* its argument dy
    scroll_pre,         \* <<direction, count>> it found when it took the lock
    toggle_pc,          \* position of each on_press call
    toggle_key,         \* its argument key (the vk code, or NO_VK)
    toggle_val,         \* the value of "not enabled" it computed
    main_pc,            \* position of main
    mouse_listening,    \* the mouse listener dispatches events
    kbd_listening,      \* the keyboard listener dispatches events
    burst_left,         \* scroll events a burst may still deliver (BurstSpec)
    duty_in,            \* argument of a call of calculate_duty_cycle (DutySpec)
    duty_out,           \* what that call returned, in fifteenths
    trigger_odd         \* history: the number of trigger-key events that
                        \* on_press has begun to handle is odd

shared == <<enabled, current_direction, scroll_count, lock, tapping_thread, stop_tapping>>
schedv == <<sched_pc, sched_dir, sched_cnt, sched_press, sched_release, sched_key, keys_down>>
scrollv == <<scroll_pc, scroll_dy, scroll_pre>>
togglev == <<toggle_pc, toggle_key, toggle_val>>
mainv == <<main_pc, mouse_listening, kbd_listening, burst_left>>
dutyv == <<duty_in, duty_out>>
histv == <<trigger_odd>>
vars == <<shared, schedv, scrollv, togglev, mainv, dutyv, histv>>

\* a lock that lets anyone in
LockIgnored == TRUE
\* "with lock:" can be entered: threading.Lock is held by nobody
LockAvailable == lock = Free

\* Thread.is_alive(): from start() until run() has terminated
IsAlive(i) == sched_pc[i] # "dead"
AliveScheds == {i \in SchedIds : IsAlive(i)}

Init ==
    /\ enabled = FALSE
    /\ current_direction = "none"
    /\ scroll_count = 0
    /\ lock = Free
    /\ tapping_thread = 0
    /\ stop_tapping = FALSE
    /\ sched_pc = [i \in SchedIds |-> "dead"]
    /\ sched_dir = [i \in SchedIds |-> "none"]
    /\ sched_cnt = [i \in SchedIds |-> 0]
    /\ sched_press = [i \in SchedIds |-> 0]
    /\ sched_release = [i \in SchedIds |-> 0]
    /\ sched_key = [i \in SchedIds |-> "none"]
    /\ keys_down = {}
    /\ scroll_pc = [t \in ScrollThreads |-> "idle"]
    /\ scroll_dy = [t \in ScrollThreads |-> 0]
    /\ scroll_pre = [t \in ScrollThreads |-> <<"none", 0>>]
    /\ toggle_pc = [t \in ToggleThreads |-> "idle"]
    /\ toggle_key = [t \in ToggleThreads |-> NO_VK]
    /\ toggle_val = [t \in ToggleThreads |-> FALSE]
    /\ main_pc = "run"
    /\ mouse_listening = TRUE
    /\ kbd_listening = TRUE
    /\ burst_left = MaxBurst
    /\ duty_in = 0
    /\ duty_out = 0
    /\ trigger_odd = FALSE

\* ------------------------------------------------------- calculate_duty_cycle
\* the function without its min(..., 1.0)
calculate_duty_cycle_unclamped(count) ==
    IF count <= 0 THEN 0 ELSE count
\* The duty cycle in fifteenths (1.0 is MAX_SCROLL_STEPS fifteenths):
\* 0.0 when scroll_count <= 0, else min(scroll_count / MAX_SCROLL_STEPS, 1.0).
calculate_duty_cycle(count) ==
    IF count <= 0 THEN 0 ELSE Min(count, MAX_SCROLL_STEPS)

\* press_duration = DUTY_CYCLE_PERIOD * duty_cycle
PressDuration(duty) == (DUTY_CYCLE_PERIOD * duty) \div MAX_SCROLL_STEPS
\* the release duration computed like the press duration
ReleaseDurationAsPress(duty) == (DUTY_CYCLE_PERIOD * duty) \div MAX_SCROLL_STEPS
\* release_duration = DUTY_CYCLE_PERIOD * (1.0 - duty_cycle)
ReleaseDuration(duty) == (DUTY_CYCLE_PERIOD * (MAX_SCROLL_STEPS - duty)) \div MAX_SCROLL_STEPS
\* the two keys exchanged
KeyToPressSwapped(direction) == IF direction = "left" THEN "d" ELSE "a"
\* key_to_press = 'a' if direction == 'left' else 'd'
KeyToPress(direction) == IF direction = "left" THEN "a" ELSE "d"
\* the key to release taken from the shared direction of the moment
KeyToReleaseFromShared(i) == KeyToPress(current_direction)
\* the key that keyboard_controller.release is given
KeyToRelease(i) == sched_key[i]

\* ------------------------------------------------------ tap_key_continuously
\* a loop condition that never sees the signal
StopNeverSeen == FALSE
\* stop_tapping.is_set()
StopIsSet == stop_tapping

\* while not stop_tapping.is_set(): one evaluation of the loop condition.
\* The locals of the iteration before are dead here and are cleared.
SchedLoopTest(i) ==
    /\ sched_pc[i] = "loop"
    /\ sched_pc' = [sched_pc EXCEPT ![i] = IF StopIsSet THEN "exit" ELSE "lock"]
    /\ sched_dir' = [sched_dir EXCEPT ![i] = "none"]
    /\ sched_cnt' = [sched_cnt EXCEPT ![i] = 0]
    /\ sched_press' = [sched_press EXCEPT ![i] = 0]
    /\ sched_release' = [sched_release EXCEPT ![i] = 0]
    /\ sched_key' = [sched_key EXCEPT ![i] = "none"]
    /\ UNCHANGED keys_down
    /\ UNCHANGED <<shared, scrollv, togglev, mainv, dutyv, histv>>

\* the function returns and the thread ends: is_alive() turns false
SchedExit(i) ==
    /\ sched_pc[i] = "exit"
    /\ sched_pc' = [sched_pc EXCEPT ![i] = "dead"]
    /\ UNCHANGED <<sched_dir, sched_cnt, sched_press, sched_release, sched_key, keys_down>>
    /\ UNCHANGED <<shared, scrollv, togglev, mainv, dutyv, histv>>

\* with lock: (entry)
SchedAcquire(i) ==
    /\ sched_pc[i] = "lock"
    /\ LockAvailable
    /\ lock' = SchedId(i)
    /\ sched_pc' = [sched_pc EXCEPT ![i] = "snap"]
    /\ UNCHANGED <<enabled, current_direction, scroll_count, tapping_thread, stop_tapping>>
    /\ UNCHANGED <<sched_dir, sched_cnt, sched_press, sched_release, sched_key, keys_down>>
    /\ UNCHANGED <<scrollv, togglev, mainv, dutyv, histv>>

\* a test that looks at the count alone and lets level 0 through
SnapshotActiveAnyCount(direction, count) == count >= 0
\* if direction and count > 0
SnapshotActive(direction, count) == direction # "none" /\ count > 0

\* an iteration that presses only when the press lasts more than one
\* fifteenth of the period
AfterComputeAboveOne(press, release) ==
    IF press > 1 THEN "press" ELSE IF release > 0 THEN "rwait" ELSE "loop"

\* where the iteration goes once its durations are known: the press when
\* press_duration > 0, else the release wait when release_duration > 0,
\* else the next evaluation of the loop condition
AfterCompute(press, release) ==
    IF press > 0 THEN "press" ELSE IF release > 0 THEN "rwait" ELSE "loop"

\* a snapshot block that keeps the lock
SnapshotLockKept(i) == SchedId(i)
\* the end of the with lock: block of the snapshot: the holder of the lock
\* once the two copies are made
SnapshotLockLeft(i) == Free

\* direction = current_direction; count = scroll_count; the lock is left;
\* then the branch on the snapshot and, in the active branch, the computation
\* of duty_cycle, press_duration, release_duration and key_to_press (all of
\* them on locals); in the other branch time.sleep(0.01) begins
SchedSnapshot(i) ==
    /\ sched_pc[i] = "snap"
    /\ sched_dir' = [sched_dir EXCEPT ![i] = current_direction]
    /\ sched_cnt' = [sched_cnt EXCEPT ![i] = scroll_count]
    /\ lock' = SnapshotLockLeft(i)
    /\ IF SnapshotActive(current_direction, scroll_count)
       THEN LET duty == calculate_duty_cycle(scroll_count) IN
            /\ sched_press' = [sched_press EXCEPT ![i] = PressDuration(duty)]
            /\ sched_release' = [sched_release EXCEPT ![i] = ReleaseDuration(duty)]
            /\ sched_key' = [sched_key EXCEPT ![i] = KeyToPress(current_direction)]
            /\ sched_pc' = [sched_pc EXCEPT ![i] =
                              AfterCompute(PressDuration(duty), ReleaseDuration(duty))]
       ELSE /\ sched_pc' = [sched_pc EXCEPT ![i] = "idle"]
            /\ UNCHANGED <<sched_press, sched_release, sched_key>>
    /\ UNCHANGED <<enabled, current_direction, scroll_count, tapping_thread, stop_tapping>>
    /\ UNCHANGED keys_down
    /\ UNCHANGED <<scrollv, togglev, mainv, dutyv, histv>>

\* keyboard_controller.press(key_to_press); time.sleep(press_duration) begins
SchedPress(i) ==
    /\ sched_pc[i] = "press"
    /\ keys_down' = keys_down \cup {sched_key[i]}
    /\ sched_pc' = [sched_pc EXCEPT ![i] = "hold"]
    /\ UNCHANGED <<sched_dir, sched_cnt, sched_press, sched_release, sched_key>>
    /\ UNCHANGED <<shared, scrollv, togglev, mainv, dutyv, histv>>

\* the sleep ends; keyboard_controller.release(key_to_press); then
\* if release_duration > 0: time.sleep(release_duration) begins
SchedRelease(i) ==
    /\ sched_pc[i] = "hold"
    /\ keys_down' = keys_down \ {KeyToRelease(i)}
    /\ sched_pc' = [sched_pc EXCEPT ![i] = AfterCompute(0, sched_release[i])]
    /\ UNCHANGED <<sched_dir, sched_cnt, sched_press, sched_release, sched_key>>
    /\ UNCHANGED <<shared, scrollv, togglev, mainv, dutyv, histv>>

\* the release wait or the idle wait ends: back to the loop condition
SchedWake(i) ==
    /\ sched_pc[i] \in {"rwait", "idle"}
    /\ sched_pc' = [sched_pc EXCEPT ![i] = "loop"]
    /\ UNCHANGED <<sched_dir, sched_cnt, sched_press, sched_release, sched_key, keys_down>>
    /\ UNCHANGED <<shared, scrollv, togglev, mainv, dutyv, histv>>

SchedStep(i) ==
    \/ SchedLoopTest(i)
    \/ SchedExit(i)
    \/ SchedAcquire(i)
    \/ SchedSnapshot(i)
    \/ SchedPress(i)
    \/ SchedRelease(i)
    \/ SchedWake(i)

\* ------------------------------------------------------------------ on_scroll
\* the listener calls on_scroll(x, y, dx, dy)
ScrollCall(t, dy) ==
    /\ mouse_listening
    /\ scroll_pc[t] = "idle"
    /\ scroll_pc' = [scroll_pc EXCEPT ![t] = "called"]
    /\ scroll_dy' = [scroll_dy EXCEPT ![t] = dy]
    /\ UNCHANGED scroll_pre
    /\ UNCHANGED <<shared, schedv, togglev, mainv, dutyv, histv>>

\* the same call as one event of a burst of MaxBurst events
BurstScrollCall(t, dy) ==
    /\ burst_left > 0
    /\ mouse_listening
    /\ scroll_pc[t] = "idle"
    /\ scroll_pc' = [scroll_pc EXCEPT ![t] = "called"]
    /\ scroll_dy' = [scroll_dy EXCEPT ![t] = dy]
    /\ burst_left' = burst_left - 1
    /\ UNCHANGED scroll_pre
    /\ UNCHANGED <<main_pc, mouse_listening, kbd_listening, dutyv, histv>>
    /\ UNCHANGED <<shared, schedv, togglev>>

\* a callback without the early return
ScrollEnabledTestSkipped(t) ==
    /\ scroll_pc[t] = "called"
    /\ scroll_pc' = [scroll_pc EXCEPT ![t] = "wlock"]
    /\ UNCHANGED <<scroll_dy, scroll_pre>>
    /\ UNCHANGED <<shared, schedv, togglev, mainv, dutyv, histv>>

\* if not enabled: return  (enabled is read without the lock)
ScrollEnabledTest(t) ==
    /\ scroll_pc[t] = "called"
    /\ IF enabled
       THEN /\ scroll_pc' = [scroll_pc EXCEPT ![t] = "wlock"]
            /\ UNCHANGED scroll_dy
       ELSE /\ scroll_pc' = [scroll_pc EXCEPT ![t] = "idle"]
            /\ scroll_dy' = [scroll_dy EXCEPT ![t] = 0]
    /\ UNCHANGED scroll_pre
    /\ UNCHANGED <<shared, schedv, togglev, mainv, dutyv, histv>>

\* with lock: (entry)
ScrollAcquire(t) ==
    /\ scroll_pc[t] = "wlock"
    /\ LockAvailable
    /\ lock' = ScrollId(t)
    /\ scroll_pc' = [scroll_pc EXCEPT ![t] = "branch"]
    /\ scroll_pre' = [scroll_pre EXCEPT ![t] = <<current_direction, scroll_count>>]
    /\ UNCHANGED scroll_dy
    /\ UNCHANGED <<enabled, current_direction, scroll_count, tapping_thread, stop_tapping>>
    /\ UNCHANGED <<schedv, togglev, mainv, dutyv, histv>>

\* the direction that a scroll of sign dy increases
SameSide(dy) == IF dy > 0 THEN "right" ELSE "left"
\* the direction that a scroll of sign dy decreases
OtherSide(dy) == IF dy > 0 THEN "left" ELSE "right"
\* the increment without its ceiling
StepUpNoCeiling(count) == count + 1
\* min(scroll_count + 1, MAX_SCROLL_STEPS)
StepUp(count) == Min(count + 1, MAX_SCROLL_STEPS)
\* the decrement with a floor of 1 instead of 0
StepDownFloorOne(count) == Max(count - 1, 1)
\* max(scroll_count - 1, 0)
StepDown(count) == Max(count - 1, 0)

\* if dy > 0 / elif dy < 0, and the test of current_direction inside; in the
\* increasing branch the assignment current_direction = 'right' (or 'left'),
\* in the decreasing branch scroll_count = max(scroll_count - 1, 0)
ScrollBranch(t) ==
    /\ scroll_pc[t] = "branch"
    /\ IF scroll_dy[t] = 0
       THEN /\ scroll_pc' = [scroll_pc EXCEPT ![t] = "check"]
            /\ UNCHANGED <<current_direction, scroll_count>>
       ELSE IF current_direction \in {SameSide(scroll_dy[t]), "none"}
       THEN /\ current_direction' = SameSide(scroll_dy[t])
            /\ scroll_pc' = [scroll_pc EXCEPT ![t] = "inc"]
            /\ UNCHANGED scroll_count
       ELSE IF current_direction = OtherSide(scroll_dy[t])
       THEN /\ scroll_count' = StepDown(scroll_count)
            /\ scroll_pc' = [scroll_pc EXCEPT ![t] = "zero"]
            /\ UNCHANGED current_direction
       ELSE /\ scroll_pc' = [scroll_pc EXCEPT ![t] = "check"]
            /\ UNCHANGED <<current_direction, scroll_count>>
    /\ UNCHANGED <<scroll_dy, scroll_pre>>
    /\ UNCHANGED <<enabled, lock, tapping_thread, stop_tapping>>
    /\ UNCHANGED <<schedv, togglev, mainv, dutyv, histv>>

\* scroll_count = min(scroll_count + 1, MAX_SCROLL_STEPS)
ScrollIncrease(t) ==
    /\ scroll_pc[t] = "inc"
    /\ scroll_count' = StepUp(scroll_count)
    /\ scroll_pc' = [scroll_pc EXCEPT ![t] = "check"]
    /\ UNCHANGED <<scroll_dy, scroll_pre>>
    /\ UNCHANGED <<enabled, current_direction, lock, tapping_thread, stop_tapping>>
    /\ UNCHANGED <<schedv, togglev, mainv, dutyv, histv>>

\* a cancellation that goes over to the other direction at level 0
ScrollZeroTestCrossing(t) ==
    /\ scroll_pc[t] = "zero"
    /\ current_direction' = IF scroll_count = 0 THEN SameSide(scroll_dy[t])
                                                ELSE current_direction
    /\ scroll_pc' = [scroll_pc EXCEPT ![t] = "check"]
    /\ UNCHANGED <<scroll_dy, scroll_pre>>
    /\ UNCHANGED <<enabled, scroll_count, lock, tapping_thread, stop_tapping>>
    /\ UNCHANGED <<schedv, togglev, mainv, dutyv, histv>>

\* if scroll_count == 0: current_direction = None
ScrollZeroTest(t) ==
    /\ scroll_pc[t] = "zero"
    /\ current_direction' = IF scroll_count = 0 THEN "none" ELSE current_direction
    /\ scroll_pc' = [scroll_pc EXCEPT ![t] = "check"]
    /\ UNCHANGED <<scroll_dy, scroll_pre>>
    /\ UNCHANGED <<enabled, scroll_count, lock, tapping_thread, stop_tapping>>
    /\ UNCHANGED <<schedv, togglev, mainv, dutyv, histv>>

\* the test without the look at the running thread
NeedsStartAlways == TRUE
\* the test without is_alive(): a thread that has ended is taken to run
NeedsStartOnlyIfNone == tapping_thread = 0
\* tapping_thread is None or not tapping_thread.is_alive()
NeedsStart == tapping_thread = 0 \/ ~IsAlive(tapping_thread)

\* the test above and, when it holds, stop_tapping.clear()
ScrollStartTest(t) ==
    /\ scroll_pc[t] = "check"
    /\ IF NeedsStart
       THEN /\ stop_tapping' = FALSE
            /\ scroll_pc' = [scroll_pc EXCEPT ![t] = "start"]
       ELSE /\ scroll_pc' = [scroll_pc EXCEPT ![t] = "unlock"]
            /\ UNCHANGED stop_tapping
    /\ UNCHANGED <<scroll_dy, scroll_pre>>
    /\ UNCHANGED <<enabled, current_direction, scroll_count, lock, tapping_thread>>
    /\ UNCHANGED <<schedv, togglev, mainv, dutyv, histv>>

\* tapping_thread = threading.Thread(...); tapping_thread.start():
\* a thread object that is not running becomes the new scheduler (the one
\* of least id: the ids are interchangeable)
ScrollStart(t) ==
    /\ scroll_pc[t] = "start"
    /\ \E i \in SchedIds :
        /\ ~IsAlive(i)
        /\ \A j \in SchedIds : ~IsAlive(j) => i <= j
        /\ tapping_thread' = i
        /\ sched_pc' = [sched_pc EXCEPT ![i] = "loop"]
    /\ scroll_pc' = [scroll_pc EXCEPT ![t] = "unlock"]
    /\ UNCHANGED <<scroll_dy, scroll_pre>>
    /\ UNCHANGED <<enabled, current_direction, scroll_count, lock, stop_tapping>>
    /\ UNCHANGED <<sched_dir, sched_cnt, sched_press, sched_release, sched_key, keys_down>>
    /\ UNCHANGED <<togglev, mainv, dutyv, histv>>

\* the with block is left and on_scroll returns
ScrollUnlock(t) ==
    /\ scroll_pc[t] = "unlock"
    /\ lock' = Free
    /\ scroll_pc' = [scroll_pc EXCEPT ![t] = "idle"]
    /\ scroll_dy' = [scroll_dy EXCEPT ![t] = 0]
    /\ scroll_pre' = [scroll_pre EXCEPT ![t] = <<"none", 0>>]
    /\ UNCHANGED <<enabled, current_direction, scroll_count, tapping_thread, stop_tapping>>
    /\ UNCHANGED <<schedv, togglev, mainv, dutyv, histv>>

\* the steps of an on_scroll call that is under way
ScrollStep(t) ==
    \/ ScrollEnabledTest(t)
    \/ ScrollAcquire(t)
    \/ ScrollBranch(t)
    \/ ScrollIncrease(t)
    \/ ScrollZeroTest(t)
    \/ ScrollStartTest(t)
    \/ ScrollStart(t)
    \/ ScrollUnlock(t)

\* ------------------------------------------------------------------- on_press
\* the listener calls on_press(key)
ToggleCall(t, key) ==
    /\ kbd_listening
    /\ toggle_pc[t] = "idle"
    /\ toggle_pc' = [toggle_pc EXCEPT ![t] = "called"]
    /\ toggle_key' = [toggle_key EXCEPT ![t] = key]
    /\ UNCHANGED toggle_val
    /\ UNCHANGED <<shared, schedv, scrollv, mainv, dutyv, histv>>

\* the test without the comparison with 96: any key with a vk code
IsTriggerAnyVk(key) == key # NO_VK
\* hasattr(key, 'vk') and key.vk == 96
IsTrigger(key) == key # NO_VK /\ key = TRIGGER_VK

\* the test of the key and, for the trigger, the read of enabled in
\* "enabled = not enabled"; any other key makes on_press return
ToggleRead(t) ==
    /\ toggle_pc[t] = "called"
    /\ IF IsTrigger(toggle_key[t])
       THEN /\ toggle_val' = [toggle_val EXCEPT ![t] = ~enabled]
            /\ toggle_pc' = [toggle_pc EXCEPT ![t] = "write"]
            /\ trigger_odd' = ~trigger_odd
            /\ UNCHANGED toggle_key
       ELSE /\ toggle_pc' = [toggle_pc EXCEPT ![t] = "idle"]
            /\ toggle_key' = [toggle_key EXCEPT ![t] = NO_VK]
            /\ UNCHANGED <<toggle_val, trigger_odd>>
    /\ UNCHANGED <<shared, schedv, scrollv, mainv, dutyv>>

\* the write of enabled in "enabled = not enabled" (no lock is held); the
\* call's locals are not read again and are cleared
ToggleWrite(t) ==
    /\ toggle_pc[t] = "write"
    /\ enabled' = toggle_val[t]
    /\ toggle_pc' = [toggle_pc EXCEPT ![t] = "test"]
    /\ toggle_key' = [toggle_key EXCEPT ![t] = NO_VK]
    /\ toggle_val' = [toggle_val EXCEPT ![t] = FALSE]
    /\ UNCHANGED <<current_direction, scroll_count, lock, tapping_thread, stop_tapping>>
    /\ UNCHANGED <<schedv, scrollv, mainv, dutyv, histv>>

\* if not enabled: (enabled is read again); otherwise on_press returns
ToggleDisabledTest(t) ==
    /\ toggle_pc[t] = "test"
    /\ IF ~enabled
       THEN /\ toggle_pc' = [toggle_pc EXCEPT ![t] = "wlock"]
            /\ UNCHANGED <<toggle_key, toggle_val>>
       ELSE /\ toggle_pc' = [toggle_pc EXCEPT ![t] = "idle"]
            /\ UNCHANGED <<toggle_key, toggle_val>>
    /\ UNCHANGED <<shared, schedv, scrollv, mainv, dutyv, histv>>

\* with lock: (entry)
ToggleAcquire(t) ==
    /\ toggle_pc[t] = "wlock"
    /\ LockAvailable
    /\ lock' = ToggleId(t)
    /\ toggle_pc' = [toggle_pc EXCEPT ![t] = "reset1"]
    /\ UNCHANGED <<toggle_key, toggle_val>>
    /\ UNCHANGED <<enabled, current_direction, scroll_count, tapping_thread, stop_tapping>>
    /\ UNCHANGED <<schedv, scrollv, mainv, dutyv, histv>>

\* current_direction = None
ToggleResetDirection(t) ==
    /\ toggle_pc[t] = "reset1"
    /\ current_direction' = "none"
    /\ toggle_pc' = [toggle_pc EXCEPT ![t] = "reset2"]
    /\ UNCHANGED <<toggle_key, toggle_val>>
    /\ UNCHANGED <<enabled, scroll_count, lock, tapping_thread, stop_tapping>>
    /\ UNCHANGED <<schedv, scrollv, mainv, dutyv, histv>>

\* scroll_count = 0
ToggleResetCount(t) ==
    /\ toggle_pc[t] = "reset2"
    /\ scroll_count' = 0
    /\ toggle_pc' = [toggle_pc EXCEPT ![t] = "unlock"]
    /\ UNCHANGED <<toggle_key, toggle_val>>
    /\ UNCHANGED <<enabled, current_direction, lock, tapping_thread, stop_tapping>>
    /\ UNCHANGED <<schedv, scrollv, mainv, dutyv, histv>>

\* a toggle-off that also asks the scheduler to stop
ToggleUnlockStopping(t) ==
    /\ toggle_pc[t] = "unlock"
    /\ lock' = Free
    /\ stop_tapping' = TRUE
    /\ toggle_pc' = [toggle_pc EXCEPT ![t] = "idle"]
    /\ UNCHANGED <<toggle_key, toggle_val>>
    /\ UNCHANGED <<enabled, current_direction, scroll_count, tapping_thread>>
    /\ UNCHANGED <<schedv, scrollv, mainv, dutyv, histv>>

\* the with block is left and on_press returns
ToggleUnlock(t) ==
    /\ toggle_pc[t] = "unlock"
    /\ lock' = Free
    /\ toggle_pc' = [toggle_pc EXCEPT ![t] = "idle"]
    /\ UNCHANGED <<toggle_key, toggle_val>>
    /\ UNCHANGED <<enabled, current_direction, scroll_count, tapping_thread, stop_tapping>>
    /\ UNCHANGED <<schedv, scrollv, mainv, dutyv, histv>>

\* the steps of an on_press call that is under way
ToggleStep(t) ==
    \/ ToggleRead(t)
    \/ ToggleWrite(t)
    \/ ToggleDisabledTest(t)
    \/ ToggleAcquire(t)
    \/ ToggleResetDirection(t)
    \/ ToggleResetCount(t)
    \/ ToggleUnlock(t)

\* ----------------------------------------------------------------------- main
\* KeyboardInterrupt while main joins the listeners: stop_tapping.set()
MainStopSignal ==
    /\ main_pc = "run"
    /\ stop_tapping' = TRUE
    /\ main_pc' = "stop_mouse"
    /\ UNCHANGED <<mouse_listening, kbd_listening, burst_left, dutyv, histv>>
    /\ UNCHANGED <<enabled, current_direction, scroll_count, lock, tapping_thread>>
    /\ UNCHANGED <<schedv, scrollv, togglev>>

\* mouse_listener.stop(): no further scroll event is dispatched
MainStopMouse ==
    /\ main_pc = "stop_mouse"
    /\ mouse_listening' = FALSE
    /\ main_pc' = "stop_keyboard"
    /\ UNCHANGED <<kbd_listening, burst_left, dutyv, histv>>
    /\ UNCHANGED <<shared, schedv, scrollv, togglev>>

\* keyboard_listener.stop(): no further key event is dispatched; main returns
MainStopKeyboard ==
    /\ main_pc = "stop_keyboard"
    /\ kbd_listening' = FALSE
    /\ main_pc' = "done"
    /\ UNCHANGED <<mouse_listening, burst_left, dutyv, histv>>
    /\ UNCHANGED <<shared, schedv, scrollv, togglev>>

MainStep == MainStopSignal \/ MainStopMouse \/ MainStopKeyboard

\* -------------------------------------------------------------- specification
\* The program as main sets it up: the mouse listener's thread runs on_scroll
\* and the keyboard listener's thread runs on_press, each for one event at a
\* time, beside the scheduler thread and main.
Next ==
    \/ \E dy \in ScrollDeltas : ScrollCall(MOUSE_LISTENER, dy)
    \/ ScrollStep(MOUSE_LISTENER)
    \/ \E key \in KeyEvents : ToggleCall(KEYBOARD_LISTENER, key)
    \/ ToggleStep(KEYBOARD_LISTENER)
    \/ \E i \in SchedIds : SchedStep(i)
    \/ MainStep

Spec == Init /\ [][Next]_vars

\* The callbacks as arbitrary concurrent threads: a burst of MaxBurst scroll
\* events handled by up to NumScroll on_scroll calls at once.
BurstNext ==
    \/ \E t \in ScrollThreads, dy \in ScrollDeltas : BurstScrollCall(t, dy)
    \/ \E t \in ScrollThreads : ScrollStep(t)
    \/ \E key \in KeyEvents : ToggleCall(KEYBOARD_LISTENER, key)
    \/ ToggleStep(KEYBOARD_LISTENER)
    \/ \E i \in SchedIds : SchedStep(i)
    \/ MainStep

BurstSpec == Init /\ [][BurstNext]_vars

\* The program of Spec handling a burst of MaxBurst scroll events, with the
\* scheduling a run of it has: a callback that is under way goes on (it can
\* wait for the lock only while another thread holds it), main's shutdown
\* path goes on, and the scheduler thread goes on and is not passed over
\* for ever when it waits for the lock.
FairNext ==
    \/ \E dy \in ScrollDeltas : BurstScrollCall(MOUSE_LISTENER, dy)
    \/ ScrollStep(MOUSE_LISTENER)
    \/ \E key \in KeyEvents : ToggleCall(KEYBOARD_LISTENER, key)
    \/ ToggleStep(KEYBOARD_LISTENER)
    \/ \E i \in SchedIds : SchedStep(i)
    \/ MainStep

Fairness ==
    /\ WF_vars(ScrollStep(MOUSE_LISTENER))
    /\ WF_vars(ToggleStep(KEYBOARD_LISTENER))
    /\ \A i \in SchedIds : SF_vars(SchedStep(i))

FairSpec == Init /\ [][FairNext]_vars /\ Fairness

\* The key callbacks as arbitrary concurrent threads: up to NumToggle
\* on_press calls at once, beside the program of FairNext.
RaceNext ==
    \/ \E dy \in ScrollDeltas : BurstScrollCall(MOUSE_LISTENER, dy)
    \/ ScrollStep(MOUSE_LISTENER)
    \/ \E t \in ToggleThreads, key \in KeyEvents : ToggleCall(t, key)
    \/ \E t \in ToggleThreads : ToggleStep(t)
    \/ \E i \in SchedIds : SchedStep(i)
    \/ MainStep

RaceSpec == Init /\ [][RaceNext]_vars

\* calculate_duty_cycle on its own: calls with any level of DutyLevels
DutyLevels == (0 - MaxDutyLevel)..(MAX_SCROLL_STEPS + MaxDutyLevel)

DutyCall(level) ==
    /\ duty_in' = level
    /\ duty_out' = calculate_duty_cycle(level)
    /\ UNCHANGED <<shared, schedv, scrollv, togglev, mainv, histv>>

DutyNext == \E level \in DutyLevels : DutyCall(level)

DutySpec == Init /\ [][DutyNext]_vars

\* ======================================================================
\* Properties
\* ======================================================================

\* the steering state a pair <<direction, level>> stands for is one of the
\* 31 states Neutral, Left(1..15), Right(1..15)
SteeringStates ==
    {<<"none", 0>>} \cup ({"left", "right"} \X (1..15))

\* The transition table of the design: Neutral goes to Right(1) on scroll up
\* and to Left(1) on scroll down; a scroll towards the current side goes to
\* level min(n+1, 15); a scroll away from it goes to level n-1, or to Neutral
\* when n = 1.
TableNext(st, dy) ==
    LET towards == IF dy > 0 THEN "right" ELSE "left" IN
    IF st[1] = "none" THEN <<towards, 1>>
    ELSE IF st[1] = towards THEN <<towards, IF st[2] + 1 <= 15 THEN st[2] + 1 ELSE 15>>
    ELSE IF st[2] > 1 THEN <<st[1], st[2] - 1>>
    ELSE <<"none", 0>>

\* an on_scroll call that has made its change to the steering state and
\* still holds the lock
ScrollMutated(t) == scroll_pc[t] \in {"check", "start", "unlock"}

\* C1: an on_scroll call that passed the enabled test with dy > 0 or dy < 0
\* leaves, for the state it found when it took the lock, exactly the state
\* of the transition table, and the state it found is one of the 31 states.
C1_TransitionTable ==
    \A t \in ScrollThreads :
        (ScrollMutated(t) /\ scroll_dy[t] # 0) =>
            /\ scroll_pre[t] \in SteeringStates
            /\ <<current_direction, scroll_count>> = TableNext(scroll_pre[t], scroll_dy[t])

\* C1 witness: a scroll up handled at Right(15) has left Right(15)
C1_Witness ==
    /\ ScrollMutated(MOUSE_LISTENER)
    /\ scroll_dy[MOUSE_LISTENER] = 1
    /\ scroll_pre[MOUSE_LISTENER] = <<"right", 15>>
    /\ <<current_direction, scroll_count>> = <<"right", 15>>

\* C2: whenever the lock is free, current_direction is None exactly when
\* scroll_count is 0, and scroll_count is within 0..15.
C2_QuantizedInvariant ==
    lock = Free =>
        /\ (current_direction = "none") <=> (scroll_count = 0)
        /\ scroll_count >= 0
        /\ scroll_count <= 15

\* C2 witness: the lock is free at Left(15) while a scroll callback, a
\* toggle callback and the scheduler all wait for it
C2_Witness ==
    /\ lock = Free
    /\ <<current_direction, scroll_count>> = <<"left", 15>>
    /\ scroll_pc[MOUSE_LISTENER] = "wlock"
    /\ toggle_pc[KEYBOARD_LISTENER] = "wlock"
    /\ \E i \in SchedIds : sched_pc[i] = "lock"

\* C3: at most one tap_key_continuously thread is alive.
C3_AtMostOneScheduler == Cardinality(AliveScheds) <= 1

\* C3 witness: after shutdown set the stop signal and the scheduler of
\* before exited, one of two concurrent on_scroll calls has cleared the
\* signal and started a scheduler while the other waits for the lock
C3_Witness ==
    /\ main_pc = "stop_mouse"
    /\ ~stop_tapping
    /\ Cardinality(AliveScheds) = 1
    /\ \E t, u \in ScrollThreads :
        /\ t # u
        /\ scroll_pc[t] = "unlock"
        /\ scroll_pc[u] = "wlock"

\* C5: at most one of the keys 'a' and 'd' is held down.
C5_OneKeyHeld == keys_down \subseteq {"a", "d"} /\ Cardinality(keys_down) <= 1

\* C5 witness: 'd' is held down while the shared state has moved to Left
C5_Witness ==
    /\ keys_down = {"d"}
    /\ current_direction = "left"
    /\ lock = Free

\* no on_press call is between its write of enabled and its return
NoToggleUnderWay ==
    \A t \in ToggleThreads : toggle_pc[t] \in {"idle", "called", "write"}

\* C4 (as claimed): a snapshot the scheduler takes while enabled is false and
\* every on_press call that wrote enabled has returned (so the last toggle
\* was a toggle-off, and it has completed) is neutral.
C4_NoActiveSnapshotAfterOff ==
    [][\A i \in SchedIds :
        (SchedSnapshot(i) /\ ~enabled /\ NoToggleUnderWay) =>
            (sched_dir'[i] = "none" /\ sched_cnt'[i] = 0)]_vars

\* C6: the write of on_press flips enabled and leaves direction and count
\* alone; an on_press call that leaves enabled true returns without touching
\* direction and count, one that leaves it false goes on to the reset; and
\* when that call returns, enabled is false, direction is None and
\* scroll_count is 0.
C6_ToggleEffect ==
    [][\A t \in ToggleThreads :
        /\ ToggleWrite(t) =>
              (enabled' = ~enabled /\ UNCHANGED <<current_direction, scroll_count>>)
        /\ ToggleDisabledTest(t) =>
              /\ UNCHANGED <<enabled, current_direction, scroll_count>>
              /\ toggle_pc'[t] = IF enabled THEN "idle" ELSE "wlock"
        /\ ToggleUnlock(t) =>
              (~enabled' /\ current_direction' = "none" /\ scroll_count' = 0)]_vars

\* C6 witness: the reset of a toggle-off that found Right(5) is under way
C6_Witness ==
    /\ toggle_pc[KEYBOARD_LISTENER] = "reset2"
    /\ ~enabled
    /\ <<current_direction, scroll_count>> = <<"none", 5>>

\* C7 (as claimed): a scheduler is alive whenever an on_scroll call returns.
C7_AliveAtEveryReturn ==
    [][\A t \in ScrollThreads :
        (scroll_pc[t] # "idle" /\ scroll_pc'[t] = "idle") => AliveScheds' # {}]_vars

\* C7 (amended): an on_scroll call that passed the enabled test clears the
\* stop signal and goes on to start a scheduler exactly when no scheduler is
\* alive at its test, and otherwise leaves the signal and the schedulers
\* alone; its start finds no scheduler alive and leaves exactly one, the one
\* tapping_thread names; and when it is about to return a scheduler is alive,
\* unless the stop signal is set.
C7_StartsExactlyOne ==
    /\ [][\A t \in ScrollThreads :
            /\ ScrollStartTest(t) =>
                  IF AliveScheds = {}
                  THEN ~stop_tapping' /\ scroll_pc'[t] = "start"
                  ELSE scroll_pc'[t] = "unlock" /\ UNCHANGED <<stop_tapping, sched_pc>>
            /\ ScrollStart(t) =>
                  (AliveScheds = {} /\ AliveScheds' = {tapping_thread'})]_vars
    /\ [](\A t \in ScrollThreads :
            scroll_pc[t] = "unlock" => (AliveScheds # {} \/ stop_tapping))

\* C7 witness: an on_scroll call that found the scheduler of before dead
\* and the stop signal set has started a new one
C7_Witness ==
    \E t \in ScrollThreads :
        /\ scroll_pc[t] = "unlock"
        /\ main_pc = "stop_mouse"
        /\ ~stop_tapping
        /\ AliveScheds = {tapping_thread}
        /\ sched_pc[tapping_thread] = "loop"

\* C8 (as claimed): when shutdown has completed no scheduler is alive.
C8_NoSchedulerAfterShutdown == main_pc = "done" => AliveScheds = {}

\* C9: a scheduler that is alive while the stop signal is set eventually
\* exits; a scheduler leaves its loop only at the loop condition, with the
\* signal set; no key is held down when it ends; and the stop signal is
\* cleared only when no scheduler is alive.
C9_StopEndsScheduler ==
    /\ \A i \in SchedIds : (stop_tapping /\ IsAlive(i)) ~> ~IsAlive(i)
    /\ [][\A i \in SchedIds :
            /\ (sched_pc[i] # "exit" /\ sched_pc'[i] = "exit") =>
                  (sched_pc[i] = "loop" /\ stop_tapping)
            /\ (IsAlive(i) /\ ~IsAlive(i)') =>
                  (sched_pc[i] = "exit" /\ keys_down = {})]_vars
    /\ [][(stop_tapping /\ ~stop_tapping') => AliveScheds = {}]_vars

\* C9 witness: the stop signal is set while the scheduler holds a key down
C9_Witness ==
    \E i \in SchedIds :
        /\ stop_tapping
        /\ sched_pc[i] = "hold"
        /\ keys_down # {}

\* C10: the durations of an iteration with an active snapshot are
\* press = level and release = 15 - level (in fifteenths of the period), both
\* >= 0 and summing to the period, for a level within 1..15; and for the
\* level a snapshot would find now (0..15), the computation gives durations
\* press = level and release = 15 - level, both >= 0 and summing to the
\* period.
C10_DurationsFillPeriod ==
    /\ \A i \in SchedIds :
        sched_pc[i] \in {"press", "hold", "rwait"} =>
            /\ sched_cnt[i] \in 1..15
            /\ sched_press[i] = sched_cnt[i]
            /\ sched_release[i] = 15 - sched_cnt[i]
            /\ sched_press[i] >= 0
            /\ sched_release[i] >= 0
            /\ sched_press[i] + sched_release[i] = DUTY_CYCLE_PERIOD
    /\ lock = Free =>
        LET duty == calculate_duty_cycle(scroll_count) IN
        /\ scroll_count \in 0..15
        /\ PressDuration(duty) = scroll_count
        /\ ReleaseDuration(duty) = 15 - scroll_count
        /\ PressDuration(duty) >= 0
        /\ ReleaseDuration(duty) >= 0
        /\ PressDuration(duty) + ReleaseDuration(duty) = DUTY_CYCLE_PERIOD

\* C10 witness: a key is held for the whole period at level 15
C10_Witness ==
    \E i \in SchedIds :
        /\ sched_pc[i] = "hold"
        /\ sched_cnt[i] = 15
        /\ sched_press[i] = 15
        /\ sched_release[i] = 0

\* C11: what calculate_duty_cycle returns for a level is clamp(level/15, 0, 1)
\* (in fifteenths: 0 below 0, 15 above 15, the level in between), it is not
\* above what the next level gives, and it is 0 at 0, 1/15 at 1 and 1 at 15.
C11_DutyCycleIsClamp ==
    /\ duty_out = IF duty_in < 0 THEN 0 ELSE IF duty_in > 15 THEN 15 ELSE duty_in
    /\ duty_out <= calculate_duty_cycle(duty_in + 1)
    /\ duty_in = 0 => duty_out = 0
    /\ duty_in = 1 => duty_out = 1
    /\ duty_in = 15 => duty_out = 15

\* C11 witness: a call with a level above 15 has returned 1.0
C11_Witness == duty_in > 15 /\ duty_out = 15

\* C12: no step of an on_press call starts a scheduler, ends one or changes
\* the stop signal: the scheduler threads, tapping_thread and stop_tapping
\* are the same after each of its steps as before.
C12_ToggleLeavesScheduler ==
    [][\A t \in ToggleThreads :
        toggle_pc'[t] # toggle_pc[t] =>
            UNCHANGED <<sched_pc, tapping_thread, stop_tapping>>]_vars

\* C12 witness: a toggle-off is about to return while the scheduler it left
\* alone is alive and not asked to stop
C12_Witness ==
    /\ toggle_pc[KEYBOARD_LISTENER] = "unlock"
    /\ ~enabled
    /\ AliveScheds # {}
    /\ ~stop_tapping

\* C13: an on_press call for a key without vk code, or with a code other
\* than 96, returns at its test of the key and leaves enabled, direction,
\* scroll_count, the lock, the scheduler and the stop signal unchanged.
C13_OtherKeysIgnored ==
    [][\A t \in ToggleThreads :
        (toggle_pc[t] = "called" /\ toggle_key[t] # 96 /\ toggle_pc'[t] # "called") =>
            (toggle_pc'[t] = "idle" /\ UNCHANGED <<shared, schedv>>)]_vars

\* C13 witness: a key without vk code is being handled while steering is
\* enabled at a level above 0 and the scheduler runs
C13_Witness ==
    /\ toggle_pc[KEYBOARD_LISTENER] = "called"
    /\ toggle_key[KEYBOARD_LISTENER] = NO_VK
    /\ enabled
    /\ scroll_count > 0
    /\ AliveScheds # {}

\* C14 (as claimed): the accesses to enabled are serialized, so that when no
\* on_press call is under way enabled is its initial value (false) flipped
\* once for every trigger-key event handled.
C14_EveryToggleCounts ==
    (\A t \in ToggleThreads : toggle_pc[t] = "idle") => (enabled = trigger_odd)

\* C15: the scheduler holds the lock only while it copies the snapshot: a
\* scheduler that holds the lock is at the copy, hence never in the press
\* wait, the release wait or the idle wait, nor at a key press or release.
C15_LockOnlyForSnapshot ==
    \A i \in SchedIds :
        /\ lock = SchedId(i) => sched_pc[i] = "snap"
        /\ sched_pc[i] \in {"press", "hold", "rwait", "idle"} => lock # SchedId(i)
C15_Witness ==
    \E i \in SchedIds :
        /\ sched_pc[i] = "hold"
        /\ lock = ScrollId(MOUSE_LISTENER)
        /\ keys_down # {}

\* C16: an iteration whose snapshot is neutral (no direction, or level 0)
\* presses and releases no key and makes the idle wait only: from the copy
\* it goes to the idle wait, from the idle wait to the next loop test, both
\* with the held keys untouched; and a step that changes the held keys is a
\* step of an iteration whose snapshot has a direction and a level above 0.
\* So once a scroll down has taken Right(1) to Neutral, no iteration gives
\* key output for as long as the shared state stays Neutral.
C16_NeutralIterationIdles ==
    [][/\ \A i \in SchedIds :
            /\ (/\ sched_pc[i] = "snap"
                /\ sched_pc'[i] # "snap"
                /\ (current_direction = "none" \/ scroll_count = 0)) =>
                    (sched_pc'[i] = "idle" /\ keys_down' = keys_down)
            /\ (sched_pc[i] = "idle" /\ sched_pc'[i] # "idle") =>
                    (sched_pc'[i] = "loop" /\ keys_down' = keys_down)
       /\ keys_down' # keys_down =>
            \E i \in SchedIds :
                /\ sched_pc[i] \in {"press", "hold"}
                /\ sched_pc'[i] # sched_pc[i]
                /\ sched_dir[i] # "none"
                /\ sched_cnt[i] > 0]_vars
\* C16 witness: a live scheduler in the idle wait of a neutral iteration,
\* steering on, no key held, nothing stopped
C16_Witness ==
    \E i \in SchedIds :
        /\ sched_pc[i] = "idle"
        /\ tapping_thread = i
        /\ <<current_direction, scroll_count>> = <<"none", 0>>
        /\ enabled
        /\ ~stop_tapping
        /\ keys_down = {}

\* C17: in an iteration with an active snapshot the key pressed is the one
\* mapped from the direction of the snapshot (Left to 'a', Right to 'd'),
\* the key released at the end of the press wait is that same key, whatever
\* the shared state has become meanwhile, and no key is held when the next
\* snapshot is taken.
C17_SnapshotKeyPressedAndReleased ==
    [][\A i \in SchedIds :
        LET key == IF sched_dir[i] = "left" THEN "a" ELSE "d" IN
        /\ (sched_pc[i] = "press" /\ sched_pc'[i] # "press") =>
                /\ sched_dir[i] \in {"left", "right"}
                /\ sched_pc'[i] = "hold"
                /\ keys_down' = keys_down \cup {key}
        /\ (sched_pc[i] = "hold" /\ sched_pc'[i] # "hold") =>
                /\ sched_dir[i] \in {"left", "right"}
                /\ key \in keys_down
                /\ keys_down' = keys_down \ {key}
        /\ sched_pc[i] = "hold" => keys_down = {key}
        /\ sched_pc[i] \in {"lock", "snap"} => keys_down = {}]_vars
\* C17 witness: 'd' of a Right snapshot is held while a toggle has turned
\* steering off and reset the shared state
C17_Witness ==
    \E i \in SchedIds :
        /\ sched_pc[i] = "hold"
        /\ sched_dir[i] = "right"
        /\ keys_down = {"d"}
        /\ <<current_direction, scroll_count>> = <<"none", 0>>
        /\ ~enabled
        /\ lock = Free

\* the shared state is d at a level >= 1, a scheduler is alive and the stop
\* signal is not set
SteadyAt(d) ==
    /\ current_direction = d
    /\ scroll_count >= 1
    /\ AliveScheds # {}
    /\ ~stop_tapping

\* C18: under fair scheduling, if from some point on the shared state stays
\* Left at a level >= 1 with a live scheduler and no stop signal, then 'a'
\* is pressed again and again and from some point on 'd' is never down; and
\* the same for Right with 'd' and 'a'.
C18_SteadyDirectionIsPressed ==
    /\ <>[]SteadyAt("left") => []<>("a" \in keys_down)
    /\ <>[]SteadyAt("left") => <>[]("d" \notin keys_down)
    /\ <>[]SteadyAt("right") => []<>("d" \in keys_down)
    /\ <>[]SteadyAt("right") => <>[]("a" \notin keys_down)
\* C18 witness: the shared state has come to Left(1) with no scroll event
\* left, while the scheduler is still in the release wait of an iteration
\* whose snapshot was Right
C18_Witness ==
    \E i \in SchedIds :
        /\ SteadyAt("left")
        /\ burst_left = 0
        /\ scroll_pc[MOUSE_LISTENER] = "idle"
        /\ sched_pc[i] = "rwait"
        /\ sched_dir[i] = "right"

\* C19: no step takes the direction from Left to Right or from Right to
\* Left, and no on_scroll call leaves the opposite of the direction it
\* found; a call that finds level 1 and scrolls against it leaves Neutral at
\* level 0; a call that finds Neutral leaves the direction of its scroll at
\* level 1.
C19_ReversalPassesNeutral ==
    [][/\ ~(current_direction = "left" /\ current_direction' = "right")
       /\ ~(current_direction = "right" /\ current_direction' = "left")
       /\ \A t \in ScrollThreads :
            (scroll_pc'[t] \in {"check", "start", "unlock"}) =>
                LET pre == scroll_pre'[t]
                    dy == scroll_dy'[t]
                    now == <<current_direction', scroll_count'>>
                IN  /\ pre[1] = "left" => now[1] # "right"
                    /\ pre[1] = "right" => now[1] # "left"
                    /\ (pre = <<"left", 1>> /\ dy > 0) => now = <<"none", 0>>
                    /\ (pre = <<"right", 1>> /\ dy < 0) => now = <<"none", 0>>
                    /\ (pre = <<"none", 0>> /\ dy > 0) => now = <<"right", 1>>
                    /\ (pre = <<"none", 0>> /\ dy < 0) => now = <<"left", 1>>]_vars
\* C19 witness: a scroll up that found Left(1) has left Neutral at level 0
C19_Witness ==
    /\ scroll_pc[MOUSE_LISTENER] = "check"
    /\ scroll_pre[MOUSE_LISTENER] = <<"left", 1>>
    /\ scroll_dy[MOUSE_LISTENER] = 1
    /\ <<current_direction, scroll_count>> = <<"none", 0>>

\* C20: an on_scroll call that reads enabled as false returns at once:
\* direction, level, enabled, the lock, the stop signal and the schedulers
\* are as before, and no scheduler is started.
C20_DisabledScrollHasNoEffect ==
    [][\A t \in ScrollThreads :
        (scroll_pc[t] = "called" /\ ~enabled /\ scroll_pc'[t] # "called") =>
            /\ scroll_pc'[t] = "idle"
            /\ UNCHANGED <<enabled, current_direction, scroll_count, lock>>
            /\ UNCHANGED <<tapping_thread, stop_tapping>>
            /\ UNCHANGED <<sched_pc, sched_dir, sched_cnt, sched_key, keys_down>>]_vars
\* C20 witness: a scroll event arrives while steering is off, with a
\* scheduler alive from before
C20_Witness ==
    /\ scroll_pc[MOUSE_LISTENER] = "called"
    /\ scroll_dy[MOUSE_LISTENER] # 0
    /\ ~enabled
    /\ toggle_pc[KEYBOARD_LISTENER] = "idle"
    /\ AliveScheds # {}

====
